---- MODULE Spec2Model ----
(***************************************************************************)
(* Model of the repository question-answering system: the indexer          *)
(* (load_data.py) that derives structural metadata for every fetched text  *)
(* file and persists chunk records, the fetcher (github_data_extractor.py)  *)
(* that walks the repository through the content API, the structure        *)
(* agent's ten tools (structure_agent.py) and the content agent's two      *)
(* tools (content_agent.py) that query the persisted records, and          *)
(* query_data with the two agent tools (extract_information.py).           *)
(*                                                                         *)
(* Strings are sequences of one-character strings, so that path splitting, *)
(* separator counting, escaping and regular-expression matching are        *)
(* computed character by character, as the code computes them.             *)
(* Paths use "/" (os.sep on the POSIX build the model describes).          *)
(***************************************************************************)
EXTENDS Integers, Sequences, FiniteSets, TLC

VARIABLES
    pc,                         \* position of the indexing script
    all_files,                  \* load_data.py:29, the fetched file map, in iteration order
    pos,                        \* index of the next entry of all_files the loop visits
    documents_for_vectorstore,  \* load_data.py:33
    all_directories,            \* load_data.py:35
    documents,                  \* load_data.py:89, the chunks
    collection,                 \* the persisted records (Github_Rag.FirstTrial)
    result,                     \* what the running tool handed to its caller
    remote,                     \* what the content API answers for each request
    runs,                       \* how many runs of the indexing script have completed
    qpc,                        \* position of query_data
    query,                      \* extract_information.py:177, the question
    agent_response,             \* extract_information.py:186
    final_answer                \* extract_information.py:218, what query_data returns

\* the state of the query application between the start and the end of query_data
app == <<qpc, query, agent_response, final_answer>>

vars == <<pc, all_files, pos, documents_for_vectorstore, all_directories,
          documents, collection, result, remote, runs, app>>

-----------------------------------------------------------------------------
(* Bounds of the model *)

\* At most this many entries in the fetched file map.
MaxFiles == 3

-----------------------------------------------------------------------------
(* Python string primitives *)

sep == "/"

RECURSIVE Count(_, _)
\* str.count(c) for a one-character c
Count(s, c) ==
    IF s = <<>> THEN 0
    ELSE (IF Head(s) = c THEN 1 ELSE 0) + Count(Tail(s), c)

\* str.rfind(c): the last index of c (0-based), -1 when absent
RFind(s, c) ==
    LET hits == {k \in 1..Len(s) : s[k] = c}
    IN  IF hits = {} THEN -1 ELSE (CHOOSE k \in hits : \A h \in hits : h <= k) - 1

\* s[:n] and s[n:] for 0 <= n <= len(s)
Prefix(s, n) == SubSeq(s, 1, n)
Suffix(s, n) == SubSeq(s, n + 1, Len(s))

RECURSIVE RStrip(_, _)
\* str.rstrip(c)
RStrip(s, c) ==
    IF s # <<>> /\ s[Len(s)] = c THEN RStrip(Prefix(s, Len(s) - 1), c) ELSE s

\* the code point of a character, which is what sorted() compares
Ord(c) ==
    CASE c = "+" -> 43 [] c = "-" -> 45 [] c = "." -> 46 [] c = "/" -> 47
      [] c = "\\" -> 92 [] c = "^" -> 94
      [] c = "a" -> 97 [] c = "b" -> 98 [] c = "c" -> 99 [] c = "d" -> 100
      [] c = "e" -> 101 [] c = "g" -> 103 [] c = "l" -> 108 [] c = "m" -> 109 [] c = "o" -> 111 [] c = "p" -> 112
      [] c = "s" -> 115 [] c = "u" -> 117 [] c = "v" -> 118 [] c = "w" -> 119
      [] c = "x" -> 120 [] OTHER -> 122

RECURSIVE StrLess(_, _)
\* s < t for Python strings
StrLess(s, t) ==
    IF t = <<>> THEN FALSE
    ELSE IF s = <<>> THEN TRUE
    ELSE IF Head(s) # Head(t) THEN Ord(Head(s)) < Ord(Head(t))
    ELSE StrLess(Tail(s), Tail(t))

RECURSIVE sorted(_)
\* sorted(values) of a collection of distinct strings
sorted(S) ==
    IF S = {} THEN <<>>
    ELSE LET least == CHOOSE x \in S : \A y \in S \ {x} : StrLess(x, y)
         IN  <<least>> \o sorted(S \ {least})

-----------------------------------------------------------------------------
(* os.path on POSIX *)

\* os.path.dirname
dirname(p) ==
    LET i    == RFind(p, sep) + 1
        head == Prefix(p, i)
    IN  IF head # <<>> /\ Count(head, sep) # Len(head) THEN RStrip(head, sep) ELSE head

\* os.path.basename
basename(p) == Suffix(p, RFind(p, sep) + 1)

\* os.path.splitext: the extension starts at the last dot of the last
\* component, unless only dots precede it there
splitext(p) ==
    LET sepIndex == RFind(p, sep)
        dotIndex == RFind(p, ".")
    IN  IF dotIndex > sepIndex
           /\ \E k \in (sepIndex + 1)..(dotIndex - 1) : p[k + 1] # "."
        THEN <<Prefix(p, dotIndex), Suffix(p, dotIndex)>>
        ELSE <<p, <<>>>>

RECURSIVE replace(_, _, _)
\* str.replace(old, new) for a one-character old
replace(s, old, new) ==
    IF s = <<>> THEN <<>>
    ELSE (IF Head(s) = old THEN new ELSE <<Head(s)>>) \o replace(Tail(s), old, new)

-----------------------------------------------------------------------------
(* The store's $regex operator (PCRE), for the pattern characters the       *)
(* alphabet of the model can produce: "^" anchors at the start of the       *)
(* subject, "\" makes the next character literal, "." matches any           *)
(* character, "+" repeats the preceding item one or more times, a second    *)
(* "+" makes that repetition possessive, and every other character is       *)
(* literal. A "+" with nothing to repeat makes the pattern invalid, and the *)
(* store then fails the query.                                              *)

Item(kind, c) == [kind |-> kind, c |-> c, q |-> "1"]

RECURSIVE Compile(_, _)
Compile(pat, items) ==
    IF pat = <<>> THEN [ok |-> TRUE, items |-> items]
    ELSE LET c == Head(pat)
             n == Len(items)
         IN  CASE c = "\\" ->
                    IF Len(pat) < 2 THEN [ok |-> FALSE, items |-> <<>>]
                    ELSE Compile(Suffix(pat, 2), Append(items, Item("lit", pat[2])))
               [] c = "+" ->
                    IF n = 0 \/ items[n].kind = "bol" \/ items[n].q = "++"
                    THEN [ok |-> FALSE, items |-> <<>>]
                    ELSE Compile(Tail(pat),
                                 [items EXCEPT ![n].q = IF @ = "1" THEN "+" ELSE "++"])
               [] c = "^" -> Compile(Tail(pat), Append(items, Item("bol", c)))
               [] c = "." -> Compile(Tail(pat), Append(items, Item("any", c)))
               [] OTHER   -> Compile(Tail(pat), Append(items, Item("lit", c)))

Fits(it, ch) == it.kind = "any" \/ (it.kind = "lit" /\ it.c = ch)

RECURSIVE Run(_, _, _)
\* how many consecutive characters of s, from position j, the item matches
Run(it, s, j) ==
    IF j <= Len(s) /\ Fits(it, s[j]) THEN 1 + Run(it, s, j + 1) ELSE 0

RECURSIVE MatchAt(_, _, _)
MatchAt(items, s, j) ==
    IF items = <<>> THEN TRUE
    ELSE LET it == Head(items)
         IN  CASE it.kind = "bol" -> j = 1 /\ MatchAt(Tail(items), s, j)
               [] it.q = "1"  -> j <= Len(s) /\ Fits(it, s[j])
                                 /\ MatchAt(Tail(items), s, j + 1)
               [] it.q = "+"  -> \E n \in 1..Run(it, s, j) :
                                    MatchAt(Tail(items), s, j + n)
               [] OTHER       -> Run(it, s, j) >= 1
                                 /\ MatchAt(Tail(items), s, j + Run(it, s, j))

\* whether the pattern compiles
RegexValid(pat) == Compile(pat, <<>>).ok

\* {'$regex': pat} applied to the string s (an unanchored search)
RegexSearch(pat, s) ==
    \E j \in 1..(Len(s) + 1) : MatchAt(Compile(pat, <<>>).items, s, j)

-----------------------------------------------------------------------------
(* The inputs: file paths as the content API reports them (components       *)
(* joined by single "/", no leading "/"), and file contents as              *)
(* get_file_content returns them, described by their Python type, their     *)
(* length and the number of their non-whitespace characters.                *)

Paths ==
    << <<"a", ".", "p">>,                                     \* a.p
       <<"s", "/", "b", ".", "p">>,                           \* s/b.p
       <<"s", "/", ".", "u", "/", "c", ".", "p">>,            \* s/.u/c.p
       <<"s", "/", ".", "u", "/", "v", "/", "d", ".", "p">>,  \* s/.u/v/d.p
       <<"s", "-", "o", "/", "b", ".", "p">>,                 \* s-o/b.p
       <<"s", "+", "/", "m">>,                                \* s+/m
       <<"s", "+", "/", "u", "/", "c", ".", "p">>,            \* s+/u/c.p
       <<"l", ".", "g">>,                                     \* l.g
       <<"s", "/", "e">>,                                     \* s/e
       <<"+", "/", "m">> >>                                   \* +/m

ShortText  == [type |-> "str", len |-> 400, nonspace |-> 300]
LongText   == [type |-> "str", len |-> 1500, nonspace |-> 1200]
EmptyText  == [type |-> "str", len |-> 0, nonspace |-> 0]
Whitespace == [type |-> "str", len |-> 3, nonspace |-> 0]
Bytes      == [type |-> "bytes", len |-> 8, nonspace |-> 8]
None       == [type |-> "NoneType", len |-> 0, nonspace |-> 0]

\* what the fetcher can hand over for each path: l.g is an image (its bytes,
\* or nothing when its download failed), s/e holds no text, +/m holds text
\* of one chunk, the other files hold text of one chunk or of several
ContentsOf(k) ==
    CASE Paths[k] = <<"l", ".", "g">> -> {Bytes, None}
      [] Paths[k] = <<"s", "/", "e">> -> {EmptyText, Whitespace}
      [] Paths[k] = <<"+", "/", "m">> -> {ShortText}
      [] OTHER                        -> {ShortText, LongText}

Contents == {ShortText, LongText, EmptyText, Whitespace, Bytes, None}

\* mutant: the content is not stripped before it is tested
IsText_AnyStr(content) == content.type = "str"

\* isinstance(content, str) and content.strip()
IsText(content) == content.type = "str" /\ content.nonspace > 0

RECURSIVE InOrder(_, _, _)
\* the entries of a file map over the paths numbered in S, in listing order
InOrder(S, c, k) ==
    IF k > Len(Paths) THEN <<>>
    ELSE (IF k \in S THEN <<[path |-> Paths[k], content |-> c[k]]>> ELSE <<>>)
         \o InOrder(S, c, k + 1)

\* what get_all_files may return
FileMaps ==
    UNION { { InOrder(S, c, 1) :
                c \in { f \in [S -> Contents] : \A k \in S : f[k] \in ContentsOf(k) } } :
            S \in { T \in SUBSET (1..Len(Paths)) : Cardinality(T) <= MaxFiles } }

-----------------------------------------------------------------------------
(* load_data.py: the indexing script *)

\* mutant: the separators are counted and the + 1 is forgotten
Depth_NoPlusOne(directory_path) == Count(directory_path, sep)

\* directory_path.count(os.sep) + 1
Depth(directory_path) == Count(directory_path, sep) + 1

\* the Document the loop body builds for one text file
Document(file_path, content) ==
    LET file_name_with_ext == basename(file_path)
        file_extension     == splitext(file_name_with_ext)[2]
        dir                == dirname(file_path)
    IN  [ page_content   |-> content,
          source         |-> file_path,
          file_name      |-> file_name_with_ext,
          file_extension |-> file_extension,
          directory      |-> IF dir # <<>> THEN dir ELSE <<".">>,
          depth          |-> IF dir # <<>> THEN Depth(dir) ELSE 0 ]

chunk_size == 1000
chunk_overlap == 100

\* how many chunks the splitter cuts a text of n characters into: one when
\* it fits, else one more for every chunk_size - chunk_overlap further characters
NumChunks(n) ==
    IF n <= chunk_size THEN 1
    ELSE 1 + ((n - chunk_size) + (chunk_size - chunk_overlap) - 1)
               \div (chunk_size - chunk_overlap)

\* mutant: only the first chunk of a Document keeps its metadata, the later
\* ones are filed under the root
Chunks_FirstOnly(doc) ==
    [k \in 1..NumChunks(doc.page_content.len) |->
        [ chunk          |-> k,
          source         |-> doc.source,
          file_name      |-> doc.file_name,
          file_extension |-> doc.file_extension,
          directory      |-> IF k = 1 THEN doc.directory ELSE <<".">>,
          depth          |-> IF k = 1 THEN doc.depth ELSE 0 ]]

\* the chunks of one Document: each carries the Document's metadata
Chunks(doc) ==
    [k \in 1..NumChunks(doc.page_content.len) |->
        [ chunk          |-> k,
          source         |-> doc.source,
          file_name      |-> doc.file_name,
          file_extension |-> doc.file_extension,
          directory      |-> doc.directory,
          depth          |-> doc.depth ]]

RECURSIVE split_documents(_)
split_documents(docs) ==
    IF docs = <<>> THEN <<>>
    ELSE Chunks(Head(docs)) \o split_documents(Tail(docs))

NoResult == [tool |-> "none"]

\* no request has been described / no value has been assigned
NoRemote == <<>>
NoValue == [type |-> "none"]

Init ==
    /\ pc = "start"
    /\ all_files = <<>>
    /\ pos = 0
    /\ documents_for_vectorstore = <<>>
    /\ all_directories = {}
    /\ documents = <<>>
    /\ collection = <<>>
    /\ result = NoResult
    /\ remote = NoRemote
    /\ runs = 0
    /\ qpc = "idle"
    /\ query = NoValue
    /\ agent_response = NoValue
    /\ final_answer = NoValue

\* exit(): the process ends and its working data with it
Exit ==
    /\ pc' = "exit"
    /\ all_files' = <<>>
    /\ pos' = 0
    /\ documents_for_vectorstore' = <<>>
    /\ all_directories' = {}
    /\ documents' = <<>>

\* the script starts (no tool call of the query application is under way):
\* all_files = get_all_files(repo_owner, repo_name)
Fetch ==
    /\ pc = "start"
    /\ result = NoResult
    /\ \E fm \in FileMaps : all_files' = fm
    /\ pos' = 1
    /\ pc' = "loop"
    /\ UNCHANGED <<documents_for_vectorstore, all_directories, documents,
                   collection, result>>
    /\ UNCHANGED <<remote, runs, app>>

\* get_all_files raises: the except clause of the first try block exits
FetchFail ==
    /\ pc = "start"
    /\ result = NoResult
    /\ Exit
    /\ UNCHANGED <<collection, result>>
    /\ UNCHANGED <<remote, runs, app>>

\* one iteration of `for file_path, content in all_files.items()`
LoopIteration ==
    /\ pc = "loop"
    /\ pos <= Len(all_files)
    /\ LET file_path == all_files[pos].path
           content   == all_files[pos].content
           doc       == Document(file_path, content)
       IN  IF IsText(content)
           THEN /\ documents_for_vectorstore' = Append(documents_for_vectorstore, doc)
                /\ all_directories' =
                       IF dirname(file_path) # <<>>
                       THEN all_directories \cup {dirname(file_path)}
                       ELSE all_directories
           ELSE UNCHANGED <<documents_for_vectorstore, all_directories>>
    /\ pos' = pos + 1
    /\ UNCHANGED <<pc, all_files, documents, collection, result>>
    /\ UNCHANGED <<remote, runs, app>>

\* after the loop: exit when no Document was built, else go on to splitting
LoopEnd ==
    /\ pc = "loop"
    /\ pos > Len(all_files)
    /\ IF documents_for_vectorstore = <<>>
       THEN Exit
       ELSE /\ pc' = "split"
            /\ UNCHANGED <<all_files, pos, documents_for_vectorstore,
                           all_directories, documents>>
    /\ UNCHANGED <<collection, result>>
    /\ UNCHANGED <<remote, runs, app>>

\* documents = text_splitter.split_documents(documents_for_vectorstore)
Split ==
    /\ pc = "split"
    /\ LET chunks == split_documents(documents_for_vectorstore)
       IN  IF chunks = <<>>
           THEN Exit
           ELSE /\ documents' = chunks
                /\ pc' = "embed"
                /\ UNCHANGED <<all_files, pos, documents_for_vectorstore,
                               all_directories>>
    /\ UNCHANGED <<collection, result>>
    /\ UNCHANGED <<remote, runs, app>>

\* the splitter raises
SplitFail ==
    /\ pc = "split"
    /\ Exit
    /\ UNCHANGED <<collection, result>>
    /\ UNCHANGED <<remote, runs, app>>

\* embeddings = HuggingFaceEmbeddings(...)
LoadEmbeddings ==
    /\ pc = "embed"
    /\ pc' = "persist"
    /\ UNCHANGED <<all_files, pos, documents_for_vectorstore, all_directories,
                   documents, collection, result>>
    /\ UNCHANGED <<remote, runs, app>>

\* loading the embedding model raises
LoadEmbeddingsFail ==
    /\ pc = "embed"
    /\ Exit
    /\ UNCHANGED <<collection, result>>
    /\ UNCHANGED <<remote, runs, app>>

\* mutant: the run's chunks take the place of the records in the store
Persist_Replace ==
    /\ pc = "persist"
    /\ collection' = documents
    /\ pc' = "persisted"
    /\ UNCHANGED <<all_files, pos, documents_for_vectorstore, all_directories,
                   documents, result>>
    /\ UNCHANGED <<remote, runs, app>>

\* MongoDBAtlasVectorSearch.from_documents(documents, ...): the chunks are
\* appended to the collection
Persist ==
    /\ pc = "persist"
    /\ collection' = collection \o documents
    /\ pc' = "persisted"
    /\ UNCHANGED <<all_files, pos, documents_for_vectorstore, all_directories,
                   documents, result>>
    /\ UNCHANGED <<remote, runs, app>>

\* from_documents raises after the store has taken some of the chunks (the
\* store inserts them one after the other, in batches, with no transaction
\* around them); the except clause prints and exits, removing nothing
PersistFail ==
    /\ pc = "persist"
    /\ \E n \in 0..(Len(documents) - 1) :
         collection' = collection \o Prefix(documents, n)
    /\ Exit
    /\ UNCHANGED <<result, remote, runs, app>>

\* the script prints its last line and the process ends
Finish ==
    /\ pc = "persisted"
    /\ pc' = "done"
    /\ all_files' = <<>>
    /\ pos' = 0
    /\ documents_for_vectorstore' = <<>>
    /\ all_directories' = {}
    /\ documents' = <<>>
    /\ UNCHANGED <<collection, result>>
    /\ runs' = runs + 1
    /\ UNCHANGED <<remote, app>>

Indexer ==
    \/ Fetch \/ FetchFail \/ LoopIteration \/ LoopEnd \/ Split \/ SplitFail
    \/ LoadEmbeddings \/ LoadEmbeddingsFail \/ Persist \/ PersistFail \/ Finish

-----------------------------------------------------------------------------
(* The store's read operations over the persisted records. A filter is a    *)
(* query document: a condition for each field it names. Records are told    *)
(* apart by their position, as the store tells them apart by _id.           *)

\* {field: value}, {field: {'$ne': value}}, {field: {'$regex': pattern}},
\* {field: {'$exists': flag}}
Eq(value)      == [op |-> "$eq", arg |-> value]
Ne(value)      == [op |-> "$ne", arg |-> value]
Regex(pattern) == [op |-> "$regex", arg |-> pattern]
Exists(flag)   == [op |-> "$exists", arg |-> flag]

Satisfies(r, field, cond) ==
    CASE cond.op = "$eq"     -> field \in DOMAIN r /\ r[field] = cond.arg
      [] cond.op = "$ne"     -> field \notin DOMAIN r \/ r[field] # cond.arg
      [] cond.op = "$regex"  -> field \in DOMAIN r /\ RegexSearch(cond.arg, r[field])
      [] cond.op = "$exists" -> (field \in DOMAIN r) = cond.arg

Matching(filter) ==
    {k \in DOMAIN collection :
        \A field \in DOMAIN filter : Satisfies(collection[k], field, filter[field])}

\* collection.distinct(field, filter)
distinct(field, filter) == {collection[k][field] : k \in Matching(filter)}

\* collection.count_documents(filter)
count_documents(filter) == Cardinality(Matching(filter))

\* collection.find(filter), in natural order
find(filter) ==
    SelectSeq(collection,
              LAMBDA r : \A field \in DOMAIN filter : Satisfies(r, field, filter[field]))

NoDoc == [found |-> FALSE]

\* collection.find_one(filter, {'depth': 1}): the first matching record's depth
find_one(filter) ==
    LET hits == Matching(filter)
    IN  IF hits = {} THEN NoDoc
        ELSE [found |-> TRUE,
              depth |-> collection[CHOOSE k \in hits : \A h \in hits : k <= h].depth]

\* the $group stage of count_files_by_extension: one item per extension,
\* counting the records that carry it
GroupByExtension ==
    { [_id   |-> e,
       count |-> Cardinality({k \in DOMAIN collection :
                                    collection[k].file_extension = e})] :
      e \in {collection[k].file_extension : k \in DOMAIN collection} }

\* the $sort stage, {'count': -1}: every order of the items in which the
\* counts never increase (the order of equal counts is the store's choice)
SortByCountDesc(items) ==
    { order \in [1..Cardinality(items) -> items] :
        /\ \A i, j \in DOMAIN order : i # j => order[i] # order[j]
        /\ \A i, j \in DOMAIN order : i < j => order[i].count >= order[j].count }

-----------------------------------------------------------------------------
(* structure_agent.py: the ten tools. A tool's outcome is either a string   *)
(* handed to the caller (the f-string's template and the value formatted    *)
(* into it) or an exception that propagates to the caller. `fault` is the   *)
(* store call of the tool that fails (0: none, 1: the first, 2: the second  *)
(* in the text of the tool).                                                *)

Str(text, value) == [type |-> "str", text |-> text, value |-> value]
Raise(e) == [type |-> "raise", text |-> e, value |-> <<>>]

StoreError == "OperationFailure"

\* try: body / except Exception as e: return f"<text>{e}"
TryExcept(body, text) == IF body.type = "raise" THEN Str(text, body.text) ELSE body

root == <<".">>
NotFoundText == "Directory '{directory_path}' not found or has no subdirectories indexed."
NoneLabel == <<"N", "o", "n", "e">>

\* the f-strings of the successful returns the properties below read
CountTotalFilesText ==
    "Total number of unique original files indexed: {file_count}"
CountTopLevelText ==
    "Total number of top-level directories indexed: {top_level_dirs_count}"
CountFilesInDirText ==
    "Total number of files directly in directory '{directory_path}': {file_count_in_dir}"
CountSubdirsText ==
    "Total number of subdirectories directly in directory '{directory_path}': {subdirectory_count}"
ListTopLevelText ==
    "Top-level directories: {', '.join(top_level_dirs) if top_level_dirs else 'None'}"
ListFilesText ==
    "Files found directly in directory '{directory_path}': {', '.join(file_names) if file_names else 'None'}"
ListSubdirsText ==
    "Subdirectories directly in directory '{directory_path}': {', '.join(immediate_subdirs) if immediate_subdirs else 'None'}"
CountSubdirsErrorText ==
    "Error counting subdirectories in directory '{directory_path}': {e}"
ExtensionCountsText ==
    "File extension counts:"

\* mutant: the files are told apart by their source path
count_total_files_BySource(fault) ==
    IF fault = 1 THEN Raise(StoreError)
    ELSE Str(CountTotalFilesText,
             Cardinality(distinct("source", [file_name |-> Exists(TRUE)])))

count_total_files_try(fault) ==
    IF fault = 1 THEN Raise(StoreError)
    ELSE LET unique_file_names ==
                 distinct("file_name", [file_name |-> Exists(TRUE)])
         IN  Str(CountTotalFilesText,
                 Cardinality(unique_file_names))

count_total_files(fault) ==
    TryExcept(count_total_files_try(fault), "Error counting total unique files: {e}")

count_total_directories_try(fault) ==
    IF fault = 1 THEN Raise(StoreError)
    ELSE Str("Total number of unique directories indexed (excluding root): {unique_directories_count}",
             Cardinality(distinct("directory", [directory |-> Ne(root)])))

count_total_directories(fault) ==
    TryExcept(count_total_directories_try(fault), "Error counting total directories: {e}")

count_top_level_directories_try(fault) ==
    IF fault = 1 THEN Raise(StoreError)
    ELSE Str(CountTopLevelText,
             Cardinality(distinct("directory", [depth |-> Eq(1)])))

count_top_level_directories(fault) ==
    TryExcept(count_top_level_directories_try(fault),
              "Error counting top-level directories: {e}")

count_files_in_directory_try(directory_path, fault) ==
    IF fault = 1 THEN Raise(StoreError)
    ELSE Str(CountFilesInDirText,
             count_documents([directory |-> Eq(directory_path)]))

count_files_in_directory(directory_path, fault) ==
    TryExcept(count_files_in_directory_try(directory_path, fault),
              "Error counting files in directory '{directory_path}': {e}")

\* escaped_directory_path = directory_path.replace(".", "\\.")
escaped(directory_path) == replace(directory_path, ".", <<"\\", ".">>)

\* regex_pattern = f'^{escaped_directory_path}/'
regex_pattern(directory_path) == <<"^">> \o escaped(directory_path) \o <<"/">>

\* mutant: the root is not special-cased; its filter is the regex '^\./' too
count_subdirectories_RegexForRoot(directory_path, fault) ==
    LET parent_doc == find_one([directory |-> Eq(directory_path)])
    IN  IF directory_path # root /\ fault = 1 THEN Raise(StoreError)
        ELSE IF directory_path # root /\ ~parent_doc.found
        THEN Str(NotFoundText, <<>>)
        ELSE IF fault = 2 THEN Raise(StoreError)
        ELSE LET parent_depth == IF directory_path = root THEN 0 ELSE parent_doc.depth
                 target_depth == parent_depth + 1
                 pattern      == regex_pattern(directory_path)
             IN  IF ~RegexValid(pattern) THEN Raise(StoreError)
                 ELSE Str(CountSubdirsText,
                          Cardinality(distinct("directory",
                                               [directory |-> Regex(pattern),
                                                depth     |-> Eq(target_depth)])
                                      \ {directory_path}))

\* mutant: a directory_path no record carries falls back to the depth its
\* separators give and the prefix query is run all the same
count_subdirectories_Fallback(directory_path, fault) ==
    LET parent_doc == find_one([directory |-> Eq(directory_path)])
    IN  IF directory_path # root /\ fault = 1 THEN Raise(StoreError)
        ELSE IF fault = 2 THEN Raise(StoreError)
        ELSE LET parent_depth == IF directory_path = root THEN 0
                                 ELSE IF parent_doc.found THEN parent_doc.depth
                                 ELSE Depth(directory_path)
                 target_depth == parent_depth + 1
                 pattern      == regex_pattern(directory_path)
             IN  IF directory_path # root /\ ~RegexValid(pattern)
                 THEN Raise(StoreError)
                 ELSE Str(CountSubdirsText,
                          Cardinality((IF directory_path = root
                                       THEN distinct("directory", [depth |-> Eq(1)])
                                       ELSE distinct("directory",
                                                     [directory |-> Regex(pattern),
                                                      depth     |-> Eq(target_depth)]))
                                      \ {directory_path}))

\* lines 102-135: resolve the parent's depth, build the filter, ask for the
\* distinct directory values, drop directory_path itself, count
count_subdirectories_in_directory_try(directory_path, fault) ==
    LET parent_doc == find_one([directory |-> Eq(directory_path)])
    IN  IF directory_path # root /\ fault = 1 THEN Raise(StoreError)
        ELSE IF directory_path # root /\ ~parent_doc.found
        THEN Str(NotFoundText, <<>>)
        ELSE IF fault = 2 THEN Raise(StoreError)
        ELSE LET parent_depth == IF directory_path = root THEN 0 ELSE parent_doc.depth
                 target_depth == parent_depth + 1
                 pattern      == regex_pattern(directory_path)
                 immediate_subdirs ==
                     IF directory_path = root
                     THEN distinct("directory", [depth |-> Eq(1)])
                     ELSE distinct("directory",
                                   [directory |-> Regex(pattern),
                                    depth     |-> Eq(target_depth)])
                          \ {directory_path}
             IN  IF directory_path # root /\ ~RegexValid(pattern)
                 THEN Raise(StoreError)
                 ELSE Str(CountSubdirsText,
                          Cardinality(immediate_subdirs))

\* mutant: the body runs outside any try block
count_subdirectories_Uncaught(directory_path, fault) ==
    count_subdirectories_in_directory_try(directory_path, fault)

count_subdirectories_in_directory(directory_path, fault) ==
    TryExcept(count_subdirectories_in_directory_try(directory_path, fault),
              CountSubdirsErrorText)

\* mutant: the parent of every directory with records is listed as well
list_all_directories_WithParents(fault) ==
    IF fault = 1 THEN Raise(StoreError)
    ELSE LET dirs == distinct("directory", [directory |-> Ne(root)])
         IN  Str("All unique directories: {', '.join(all_unique_dirs) if all_unique_dirs else 'None'}",
                 sorted(dirs \cup ({dirname(d) : d \in dirs} \ {<<>>})))

list_all_directories_try(fault) ==
    IF fault = 1 THEN Raise(StoreError)
    ELSE Str("All unique directories: {', '.join(all_unique_dirs) if all_unique_dirs else 'None'}",
             sorted(distinct("directory", [directory |-> Ne(root)])))

list_all_directories(fault) ==
    TryExcept(list_all_directories_try(fault), "Error listing all directories: {e}")

list_top_level_directories_try(fault) ==
    IF fault = 1 THEN Raise(StoreError)
    ELSE Str(ListTopLevelText,
             sorted(distinct("directory", [depth |-> Eq(1)])))

list_top_level_directories(fault) ==
    TryExcept(list_top_level_directories_try(fault),
              "Error listing top-level directories: {e}")

\* mutant: the filter matches every directory that starts with directory_path
list_files_in_directory_ByPrefix(directory_path, fault) ==
    IF fault = 1 THEN Raise(StoreError)
    ELSE LET files_in_dir ==
                 find([directory |-> Regex(<<"^">> \o escaped(directory_path))])
             file_names   == [k \in DOMAIN files_in_dir |-> files_in_dir[k].file_name]
         IN  Str(ListFilesText, file_names)

list_files_in_directory_try(directory_path, fault) ==
    IF fault = 1 THEN Raise(StoreError)
    ELSE LET files_in_dir == find([directory |-> Eq(directory_path)])
             file_names   == [k \in DOMAIN files_in_dir |-> files_in_dir[k].file_name]
         IN  Str(ListFilesText,
                 file_names)

list_files_in_directory(directory_path, fault) ==
    TryExcept(list_files_in_directory_try(directory_path, fault),
              "Error listing files in directory '{directory_path}': {e}")

\* lines 211-241: the same steps, then the sorted values are listed
list_subdirectories_in_directory_try(directory_path, fault) ==
    LET parent_doc == find_one([directory |-> Eq(directory_path)])
    IN  IF directory_path # root /\ fault = 1 THEN Raise(StoreError)
        ELSE IF directory_path # root /\ ~parent_doc.found
        THEN Str(NotFoundText, <<>>)
        ELSE IF fault = 2 THEN Raise(StoreError)
        ELSE LET parent_depth == IF directory_path = root THEN 0 ELSE parent_doc.depth
                 target_depth == parent_depth + 1
                 pattern      == regex_pattern(directory_path)
                 distinct_dirs ==
                     IF directory_path = root
                     THEN distinct("directory", [depth |-> Eq(1)])
                     ELSE distinct("directory",
                                   [directory |-> Regex(pattern),
                                    depth     |-> Eq(target_depth)])
                 immediate_subdirs ==
                     IF directory_path # root
                     THEN sorted(distinct_dirs \ {directory_path})
                     ELSE sorted(distinct_dirs)
             IN  IF directory_path # root /\ ~RegexValid(pattern)
                 THEN Raise(StoreError)
                 ELSE Str(ListSubdirsText,
                          immediate_subdirs)

list_subdirectories_in_directory(directory_path, fault) ==
    TryExcept(list_subdirectories_in_directory_try(directory_path, fault),
              "Error listing subdirectories in directory '{directory_path}': {e}")

\* the lines of the extension report, one per item of the sorted aggregation
count_files_by_extension_try(extension_counts, fault) ==
    IF fault = 1 THEN Raise(StoreError)
    ELSE IF extension_counts # <<>>
    THEN Str(ExtensionCountsText,
             [k \in DOMAIN extension_counts |->
                 [label |-> IF extension_counts[k]._id # <<>>
                            THEN extension_counts[k]._id ELSE NoneLabel,
                  count |-> extension_counts[k].count]])
    ELSE Str("No file extension data found.", <<>>)

count_files_by_extension(extension_counts, fault) ==
    TryExcept(count_files_by_extension_try(extension_counts, fault),
              "Error counting files by extension: {e}")

-----------------------------------------------------------------------------
(* The structure agent calling its tools. The query application and the     *)
(* indexing script are separate programs run one after the other, so a tool *)
(* runs while no indexing run is under way; it hands its outcome to the     *)
(* agent, which consumes it before the next call.                           *)

\* the directory_path arguments tried: the root, every directory of Paths,
\* and a path no file lies in
QueryPaths ==
    {root, <<"x">>} \cup ({dirname(Paths[k]) : k \in DOMAIN Paths} \ {<<>>})

Idle == pc \in {"start", "done", "exit"} /\ result = NoResult

\* the call (tool, argument, failing store call) and its outcome
Outcome(tool, arg, fault, outcome) ==
    [tool |-> tool, arg |-> arg, fault |-> fault, type |-> outcome.type,
     text |-> outcome.text, value |-> outcome.value]

\* mutant: the tool keeps a record of each call in the collection
Call_Recording(tool, arg, fault, outcome) ==
    /\ Idle
    /\ result' = Outcome(tool, arg, fault, outcome)
    /\ collection' = Append(collection, [tool |-> tool])
    /\ UNCHANGED <<pc, all_files, pos, documents_for_vectorstore, all_directories,
                   documents>>
    /\ UNCHANGED <<remote, runs, app>>

Call(tool, arg, fault, outcome) ==
    /\ Idle
    /\ result' = Outcome(tool, arg, fault, outcome)
    /\ UNCHANGED <<pc, all_files, pos, documents_for_vectorstore, all_directories,
                   documents, collection>>
    /\ UNCHANGED <<remote, runs, app>>

CallCountTotalFiles ==
    \E fault \in 0..1 : Call("count_total_files", <<>>, fault, count_total_files(fault))

CallCountTotalDirectories ==
    \E fault \in 0..1 :
        Call("count_total_directories", <<>>, fault, count_total_directories(fault))

CallCountTopLevelDirectories ==
    \E fault \in 0..1 :
        Call("count_top_level_directories", <<>>, fault, count_top_level_directories(fault))

CallCountFilesInDirectory ==
    \E directory_path \in QueryPaths, fault \in 0..1 :
        Call("count_files_in_directory", directory_path, fault,
             count_files_in_directory(directory_path, fault))

CallCountSubdirectoriesInDirectory ==
    \E directory_path \in QueryPaths, fault \in 0..2 :
        Call("count_subdirectories_in_directory", directory_path, fault,
             count_subdirectories_in_directory(directory_path, fault))

CallListAllDirectories ==
    \E fault \in 0..1 : Call("list_all_directories", <<>>, fault, list_all_directories(fault))

CallListTopLevelDirectories ==
    \E fault \in 0..1 :
        Call("list_top_level_directories", <<>>, fault, list_top_level_directories(fault))

CallListFilesInDirectory ==
    \E directory_path \in QueryPaths, fault \in 0..1 :
        Call("list_files_in_directory", directory_path, fault,
             list_files_in_directory(directory_path, fault))

CallListSubdirectoriesInDirectory ==
    \E directory_path \in QueryPaths, fault \in 0..2 :
        Call("list_subdirectories_in_directory", directory_path, fault,
             list_subdirectories_in_directory(directory_path, fault))

CallCountFilesByExtension ==
    \E extension_counts \in SortByCountDesc(GroupByExtension), fault \in 0..1 :
        Call("count_files_by_extension", <<>>, fault,
             count_files_by_extension(extension_counts, fault))

\* the agent takes the tool's string
Return ==
    /\ result # NoResult
    /\ result' = NoResult
    /\ UNCHANGED <<pc, all_files, pos, documents_for_vectorstore, all_directories,
                   documents, collection>>
    /\ UNCHANGED <<remote, runs, app>>

StructureAgent ==
    \/ CallCountTotalFiles \/ CallCountTotalDirectories
    \/ CallCountTopLevelDirectories \/ CallCountFilesInDirectory
    \/ CallCountSubdirectoriesInDirectory \/ CallListAllDirectories
    \/ CallListTopLevelDirectories \/ CallListFilesInDirectory
    \/ CallListSubdirectoriesInDirectory \/ CallCountFilesByExtension
    \/ Return

Next == Indexer \/ StructureAgent

Spec == Init /\ [][Next]_vars

-----------------------------------------------------------------------------
(* content_agent.py: the two tools over the vector store. The store ranks    *)
(* records by similarity to the query text; `ranking` is the order in which  *)
(* it would hand them out for the query at hand (positions in the            *)
(* collection, none twice; possibly not all of them), which the model leaves *)
(* open. A search returns the request it was given and the first k of the    *)
(* ranking.                                                                  *)

BroadQuery == "overview of the repository content and structure"

\* vector_store.similarity_search(query, k)
similarity_search(q, k, ranking) ==
    [query |-> q, k |-> k,
     docs  |-> Prefix(ranking, IF k < Len(ranking) THEN k ELSE Len(ranking))]

\* f"Source: {d.metadata.get('source', 'N/A')}\nContent:\n{d.page_content}"
\* for d in docs (a chunk's text is told by its source and its number)
Blocks(docs) ==
    [i \in DOMAIN docs |->
        [source |-> collection[docs[i]].source, content |-> collection[docs[i]].chunk]]

FormattedDocsText == "\n---\n.join(Source: {source}\nContent:\n{page_content} for d in docs)"
NoChunksText == "No relevant document chunks found."
NoSummaryText == "Could not retrieve content for a general summary."

\* the searches a tool made and the blocks it formatted
Found(searches, blocks) == [searches |-> searches, blocks |-> blocks]

\* mutant: the search is made with the broad query and k = 20
content_search_Broad(q, ranking, fault) ==
    IF fault = 1 THEN Raise(StoreError)
    ELSE LET search == similarity_search(BroadQuery, 20, ranking)
         IN  IF search.docs # <<>>
             THEN Str(FormattedDocsText, Found(<<search>>, Blocks(search.docs)))
             ELSE Str(NoChunksText, Found(<<search>>, <<>>))

\* lines 28-40
content_search_try(q, ranking, fault) ==
    IF fault = 1 THEN Raise(StoreError)
    ELSE LET search == similarity_search(q, 5, ranking)
         IN  IF search.docs # <<>>
             THEN Str(FormattedDocsText, Found(<<search>>, Blocks(search.docs)))
             ELSE Str(NoChunksText, Found(<<search>>, <<>>))

content_search(q, ranking, fault) ==
    TryExcept(content_search_try(q, ranking, fault), "Error during content search: {e}")

\* lines 56-70
summarize_repo_content_try(ranking, fault) ==
    IF fault = 1 THEN Raise(StoreError)
    ELSE LET broad_query == BroadQuery
             search == similarity_search(broad_query, 20, ranking)
         IN  IF search.docs # <<>>
             THEN Str(FormattedDocsText, Found(<<search>>, Blocks(search.docs)))
             ELSE Str(NoSummaryText, Found(<<search>>, <<>>))

summarize_repo_content(ranking, fault) ==
    TryExcept(summarize_repo_content_try(ranking, fault),
              "Error retrieving content for summary: {e}")

\* the orders the store may rank the records in
Rankings ==
    UNION { {ranking \in [1..m -> DOMAIN collection] :
                \A i, j \in 1..m : i # j => ranking[i] # ranking[j]} :
            m \in 0..Len(collection) }

\* the query texts the content agent passes to content_search
SearchQueries == {"hi", "what is in a.p"}

CallContentSearch ==
    /\ Idle
    /\ \E q \in SearchQueries, ranking \in Rankings, fault \in 0..1 :
         Call("content_search", q, fault, content_search(q, ranking, fault))

CallSummarizeRepoContent ==
    /\ Idle
    /\ \E ranking \in Rankings, fault \in 0..1 :
         Call("summarize_repo_content", <<>>, fault, summarize_repo_content(ranking, fault))

ContentAgent == CallContentSearch \/ CallSummarizeRepoContent \/ Return

-----------------------------------------------------------------------------
(* github_data_extractor.py: the walk over the repository through the       *)
(* content API. The repository is a small tree; `remote` gives, for every   *)
(* request path, the response the API sends: its status code and, for a     *)
(* file, what the body holds.                                               *)

MaxRuns == 2

\* the items of each directory listing, in the order the API lists them
ListingItem(type, path) == [type |-> type, path |-> path]

RemoteDirs == { <<>>, <<"s">>, <<"s", "/", ".", "u">> }
RemoteFiles == { Paths[1], Paths[2], Paths[3] }

Listing(path) ==
    CASE path = <<>> ->
             << ListingItem("file", Paths[1]), ListingItem("submodule", <<"m">>), ListingItem("dir", <<"s">>) >>
      [] path = <<"s">> ->
             << ListingItem("dir", <<"s", "/", ".", "u">>), ListingItem("file", Paths[2]) >>
      [] path = <<"s", "/", ".", "u">> ->
             << ListingItem("file", Paths[3]) >>

\* a response that is not a success (404, 403 at the rate limit, 5xx)
Failed == [status_code |-> 404]

DirResponses == { [status_code |-> 200], Failed }

\* a file's body: base64 of UTF-8 text, base64 of other bytes, text that is
\* not base64, or content the API did not encode (encoding "none")
Body(encoding, b64, utf8, text) ==
    [status_code |-> 200, encoding |-> encoding, b64 |-> b64, utf8 |-> utf8,
     text |-> text]

FileResponses ==
    { Body("base64", TRUE, TRUE, t) : t \in {ShortText, LongText, EmptyText, Whitespace} }
    \cup { Body("base64", TRUE, FALSE, Bytes),
           Body("base64", FALSE, FALSE, None),
           Body("none", FALSE, FALSE, None),
           Failed }

Remotes ==
    { d @@ f : d \in [RemoteDirs -> DirResponses], f \in [RemoteFiles -> FileResponses] }

\* lines 23-46
get_file_content(file_path) ==
    LET response == remote[file_path]
    IN  IF response.status_code = 200
        THEN IF response.encoding = "base64"
             THEN IF ~response.b64 THEN None
                  ELSE IF response.utf8 THEN response.text
                  ELSE Bytes
             ELSE None
        ELSE None

\* all_contents[path] = content and all_contents.update(sub_contents): a key
\* the dict holds keeps its place, a new key goes to the end
Put(all_contents, path, content) ==
    IF \E k \in DOMAIN all_contents : all_contents[k].path = path
    THEN [k \in DOMAIN all_contents |->
             IF all_contents[k].path = path
             THEN [path |-> path, content |-> content] ELSE all_contents[k]]
    ELSE Append(all_contents, [path |-> path, content |-> content])

RECURSIVE Update(_, _)
Update(all_contents, sub_contents) ==
    IF sub_contents = <<>> THEN all_contents
    ELSE Update(Put(all_contents, Head(sub_contents).path, Head(sub_contents).content),
                Tail(sub_contents))

Dict(files) == [type |-> "dict", files |-> files]

RECURSIVE get_all_files_RaiseForStatus(_)
RECURSIVE get_all_files(_)
RECURSIVE ItemsLoop(_, _)

\* lines 14-20: for item in items
ItemsLoop(items, all_contents) ==
    IF items = <<>> THEN Dict(all_contents)
    ELSE LET item == Head(items)
         IN  IF item.type = "file"
             THEN ItemsLoop(Tail(items),
                            Put(all_contents, item.path, get_file_content(item.path)))
             ELSE IF item.type = "dir"
             THEN LET sub_contents == get_all_files(item.path)
                  IN  IF sub_contents.type = "raise" THEN sub_contents
                      ELSE ItemsLoop(Tail(items), Update(all_contents, sub_contents.files))
             ELSE ItemsLoop(Tail(items), all_contents)

\* mutant: response.raise_for_status() before the status is looked at
get_all_files_RaiseForStatus(path) ==
    IF remote[path].status_code = 200
    THEN ItemsLoop(Listing(path), <<>>)
    ELSE Raise("HTTPError")

\* lines 6-21
get_all_files(path) ==
    IF remote[path].status_code = 200
    THEN ItemsLoop(Listing(path), <<>>)
    ELSE Dict(<<>>)

InitIndex ==
    /\ pc = "start"
    /\ all_files = <<>>
    /\ pos = 0
    /\ documents_for_vectorstore = <<>>
    /\ all_directories = {}
    /\ documents = <<>>
    /\ collection = <<>>
    /\ result = NoResult
    /\ remote \in Remotes
    /\ runs = 0
    /\ qpc = "idle"
    /\ query = NoValue
    /\ agent_response = NoValue
    /\ final_answer = NoValue

\* load_data.py:29, all_files = get_all_files(repo_owner, repo_name), with
\* the walk spelled out; an exception ends the script in the except clause
FetchRemote ==
    /\ pc = "start"
    /\ LET fetched == get_all_files(<<>>)
       IN  IF fetched.type = "raise"
           THEN Exit
           ELSE /\ all_files' = fetched.files
                /\ pos' = 1
                /\ pc' = "loop"
                /\ UNCHANGED <<documents_for_vectorstore, all_directories, documents>>
    /\ UNCHANGED <<collection, result, remote, runs, app>>

\* the script is run again on the unchanged repository
Rerun ==
    /\ pc \in {"done", "exit"}
    /\ runs < MaxRuns
    /\ pc' = "start"
    /\ UNCHANGED <<all_files, pos, documents_for_vectorstore, all_directories,
                   documents, collection, result, remote, runs, app>>

\* runs of the script, one after the other, that complete or fail before
\* anything is handed to the store
NextIndex ==
    \/ FetchRemote \/ FetchFail \/ LoopIteration \/ LoopEnd \/ Split \/ SplitFail
    \/ LoadEmbeddings \/ LoadEmbeddingsFail \/ Persist \/ Finish \/ Rerun

SpecIndex == InitIndex /\ [][NextIndex]_vars

-----------------------------------------------------------------------------
(* extract_information.py: query_data and the two agent tools. A Python str *)
(* the language model wrote is given character by character (Chars); a      *)
(* fixed message of the code is given by its f-string (Str).                *)

Chars(s) == [type |-> "str", chars |-> s]

\* the grave accent (U+0060), which a string of this language cannot hold
grave == "U+0060"

space == {" ", "\n", "\t"}

RECURSIVE lstrip(_)
lstrip(s) == IF s # <<>> /\ Head(s) \in space THEN lstrip(Tail(s)) ELSE s

RECURSIVE rstrip(_)
rstrip(s) == IF s # <<>> /\ s[Len(s)] \in space THEN rstrip(Prefix(s, Len(s) - 1)) ELSE s

\* str.strip()
strip(s) == lstrip(rstrip(s))

startswith(s, prefix) == Len(s) >= Len(prefix) /\ Prefix(s, Len(prefix)) = prefix
endswith(s, suffix) ==
    Len(s) >= Len(suffix) /\ Suffix(s, Len(s) - Len(suffix)) = suffix

FenceOpen        == <<grave, grave, grave, "t", "e", "x", "t">>
FenceOpenNewline == <<grave, grave, grave, "t", "e", "x", "t", "\n">>
FenceClose       == <<grave, grave, grave>>
OutputKey        == <<"o", "u", "t", "p", "u", "t">>

\* json.loads, for the JSON texts written with objects, strings without
\* escapes and unsigned integers; any other text is a JSONDecodeError
Digits == {"0", "1", "2", "3", "4", "5", "6", "7", "8", "9"}
JsonFail == [ok |-> FALSE]

RECURSIVE SkipSpace(_, _)
SkipSpace(s, i) == IF i <= Len(s) /\ s[i] \in space THEN SkipSpace(s, i + 1) ELSE i

\* the index of the next double quote at or after j, 0 when there is none
RECURSIVE FindQuote(_, _)
FindQuote(s, j) ==
    IF j > Len(s) THEN 0 ELSE IF s[j] = "\"" THEN j ELSE FindQuote(s, j + 1)

\* the index after the digits that start at i
RECURSIVE ScanDigits(_, _)
ScanDigits(s, i) == IF i <= Len(s) /\ s[i] \in Digits THEN ScanDigits(s, i + 1) ELSE i

RECURSIVE ParseValue(_, _)
RECURSIVE ParseMembers(_, _, _)

\* the value that starts at or after index i0, and the index after it
ParseValue(s, i0) ==
    LET i == SkipSpace(s, i0)
    IN  IF i > Len(s) THEN JsonFail
        ELSE IF s[i] = "\""
        THEN LET j == FindQuote(s, i + 1)
             IN  IF j = 0 THEN JsonFail
                 ELSE [ok |-> TRUE, value |-> Chars(SubSeq(s, i + 1, j - 1)), next |-> j + 1]
        ELSE IF s[i] \in Digits
        THEN LET j == ScanDigits(s, i)
             IN  IF s[i] = "0" /\ j > i + 1 THEN JsonFail
                 ELSE [ok |-> TRUE,
                       value |-> [type |-> "int", digits |-> SubSeq(s, i, j - 1)],
                       next |-> j]
        ELSE IF s[i] = "{" THEN ParseMembers(s, i + 1, <<>>)
        ELSE JsonFail

\* the members of an object after its "{" or after a ",", up to its "}"
ParseMembers(s, i0, members) ==
    LET i == SkipSpace(s, i0)
    IN  IF i > Len(s) THEN JsonFail
        ELSE IF s[i] = "}" /\ members = <<>>
        THEN [ok |-> TRUE, value |-> [type |-> "dict", items |-> members], next |-> i + 1]
        ELSE IF s[i] # "\"" THEN JsonFail
        ELSE LET j == FindQuote(s, i + 1)
                 c == SkipSpace(s, j + 1)
                 v == ParseValue(s, c + 1)
                 e == SkipSpace(s, v.next)
                 items == Append(members, [key |-> SubSeq(s, i + 1, j - 1),
                                           value |-> v.value])
             IN  IF j = 0 THEN JsonFail
                 ELSE IF c > Len(s) \/ s[c] # ":" THEN JsonFail
                 ELSE IF ~v.ok THEN JsonFail
                 ELSE IF e > Len(s) THEN JsonFail
                 ELSE IF s[e] = "}"
                 THEN [ok |-> TRUE, value |-> [type |-> "dict", items |-> items],
                       next |-> e + 1]
                 ELSE IF s[e] = "," THEN ParseMembers(s, e + 1, items)
                 ELSE JsonFail

json_loads(s) ==
    LET parsed == ParseValue(s, 1)
    IN  IF parsed.ok /\ SkipSpace(s, parsed.next) > Len(s)
        THEN [ok |-> TRUE, value |-> parsed.value]
        ELSE JsonFail

\* 'output' in json_output and json_output['output'] (the last member of
\* that name is the one a dict keeps)
HasOutput(json_output) ==
    json_output.type = "dict"
    /\ \E k \in DOMAIN json_output.items : json_output.items[k].key = OutputKey

OutputOf(json_output) ==
    LET hits == {k \in DOMAIN json_output.items : json_output.items[k].key = OutputKey}
    IN  json_output.items[CHOOSE k \in hits : \A h \in hits : h <= k].value

\* what the router's language model may write as its final output
\* plain text
PlainOutput ==
    <<"a", "b">>
\* plain text with whitespace around it
PaddedOutput ==
    <<" ", "a", "b", "\n">>
\* text in a fence: three grave accents and "text" open it, three close it
FencedOutput ==
    <<grave, grave, grave, "t", "e", "x", "t", "\n", "a", "b", "\n", grave, grave, grave>>
\* a fence with whitespace around it
PaddedFencedOutput ==
    <<" ", grave, grave, grave, "t", "e", "x", "t", "\n", "a", "b", grave, grave, grave, " ", "\n">>
\* a fence that is never closed
UnclosedFencedOutput ==
    <<grave, grave, grave, "t", "e", "x", "t", "\n", "a", "b">>
\* a fence with no newline after its opening
InlineFencedOutput ==
    <<grave, grave, grave, "t", "e", "x", "t", "a", "b", grave, grave, grave>>
\* a fenced JSON object with a text under 'output'
FencedJsonOutput ==
    <<grave, grave, grave, "t", "e", "x", "t", "\n", "{", "\"", "o", "u", "t", "p", "u", "t", "\"", ":", " ", "\"", "a", "b", "\"", "}", "\n", grave, grave, grave>>
\* a fenced JSON object with a number under 'output'
FencedJsonNumberOutput ==
    <<grave, grave, grave, "t", "e", "x", "t", "\n", "{", "\"", "o", "u", "t", "p", "u", "t", "\"", ":", " ", "7", "}", "\n", grave, grave, grave>>
\* a fenced JSON object without 'output'
FencedJsonOtherOutput ==
    <<grave, grave, grave, "t", "e", "x", "t", "\n", "{", "\"", "x", "\"", ":", " ", "7", "}", "\n", grave, grave, grave>>
\* a fenced JSON number
FencedNumberOutput ==
    <<grave, grave, grave, "t", "e", "x", "t", "\n", "7", "\n", grave, grave, grave>>

RouterOutputs ==
    {PlainOutput, PaddedOutput, FencedOutput,
     PaddedFencedOutput, UnclosedFencedOutput, InlineFencedOutput,
     FencedJsonOutput, FencedJsonNumberOutput, FencedJsonOtherOutput,
     FencedNumberOutput}

\* what executor.invoke hands back: a dict, with or without an 'output'
\* entry, or an exception
Response(output) == [type |-> "dict", has_output |-> TRUE, output |-> output]
NoOutputResponse == [type |-> "dict", has_output |-> FALSE]
InvokeError      == [type |-> "raise", e |-> "LLMError"]

RouterResponses ==
    {Response(Chars(o)) : o \in RouterOutputs}
    \cup {Response([type |-> "list"]), NoOutputResponse, InvokeError}

AgentResponses == {Response(Chars(PlainOutput)), NoOutputResponse, InvokeError}

\* response.get('output', default)
get_output(response, default) ==
    IF response.has_output THEN response.output ELSE Str(default, <<>>)

\* the characters of a str (none of the fixed messages opens a fence)
chars_of(text) == IF "chars" \in DOMAIN text THEN text.chars ELSE <<>>

PromptText == "Please enter a question about the repository content or structure."
RouterErrorText == "An error occurred during router agent processing: {e}"

\* mutant: the output is returned as the router wrote it
parse_output_Verbatim(raw_output) == raw_output

\* lines 190-214: the "enhanced output parsing" of raw_output
parse_output(raw_output) ==
    IF startswith(strip(chars_of(raw_output)), FenceOpen)
    THEN LET cut == Suffix(strip(chars_of(raw_output)), Len(FenceOpenNewline))
             cleaned_output ==
                 IF endswith(cut, FenceClose)
                 THEN strip(Prefix(cut, Len(cut) - Len(FenceClose)))
                 ELSE cut
             json_output == json_loads(cleaned_output)
         IN  IF json_output.ok
             THEN IF HasOutput(json_output.value)
                  THEN OutputOf(json_output.value)
                  ELSE Chars(cleaned_output)
             ELSE Chars(cleaned_output)
    ELSE raw_output

\* lines 183-218: the try block of query_data, given what the router's
\* executor hands back
query_data_try(response) ==
    IF response.type = "raise" THEN Raise(response.e)
    ELSE LET raw_output ==
                 get_output(response, "Router Agent failed to produce an output.")
         IN  IF raw_output.type # "str" THEN Raise("AttributeError")
             ELSE parse_output(raw_output)

query_data_invoke(response) == TryExcept(query_data_try(response), RouterErrorText)

\* mutant: only a missing question is turned away
not_query_NoneOnly(q) == q = NoValue

\* line 179: if not query
not_query(q) == q = NoValue \/ q.chars = <<>>

\* lines 99-114
structure_agent_tool(response) ==
    IF response.type = "raise"
    THEN Str("Error routing query to Structure Agent: {e}", response.e)
    ELSE get_output(response, "Structure Agent failed to produce output.")

\* lines 117-131
content_agent_tool(response) ==
    IF response.type = "raise"
    THEN Str("Error routing query to Content Agent: {e}", response.e)
    ELSE get_output(response, "Content Agent failed to produce output.")

\* the Documents the loop of load_data.py:37-70 builds from a file map, and
\* the records one complete run persists for it
RECURSIVE DocumentsOf(_)
DocumentsOf(files) ==
    IF files = <<>> THEN <<>>
    ELSE (IF IsText(Head(files).content)
          THEN <<Document(Head(files).path, Head(files).content)>>
          ELSE <<>>)
         \o DocumentsOf(Tail(files))

RunRecords(files) == split_documents(DocumentsOf(files))

\* the store the query application starts on: never indexed, or indexed
\* once with three files of two chunks each
IndexedFiles ==
    [k \in 1..3 |-> [path |-> Paths[k], content |-> LongText]]

script == <<pc, all_files, pos, documents_for_vectorstore, all_directories,
            documents, remote, runs>>

InitQuery ==
    /\ \/ pc = "start" /\ runs = 0 /\ collection = <<>>
       \/ pc = "done" /\ runs = 1 /\ collection = RunRecords(IndexedFiles)
    /\ all_files = <<>>
    /\ pos = 0
    /\ documents_for_vectorstore = <<>>
    /\ all_directories = {}
    /\ documents = <<>>
    /\ result = NoResult
    /\ remote = NoRemote
    /\ qpc = "idle"
    /\ query = NoValue
    /\ agent_response = NoValue
    /\ final_answer = NoValue

\* the questions typed into the text box: none, and one
Questions == {Chars(<<>>), Chars(<<"h", "i">>)}

\* button.click(query_data, ...): lines 177-181
Ask ==
    /\ qpc = "idle"
    /\ result = NoResult
    /\ \E q \in Questions :
         /\ query' = q
         /\ IF not_query(q)
            THEN /\ final_answer' = Str(PromptText, <<>>)
                 /\ qpc' = "returned"
            ELSE /\ final_answer' = final_answer
                 /\ qpc' = "router"
    /\ UNCHANGED <<agent_response, script, collection, result>>

\* the router's executor calls one of its two tools
RouterCallsStructureAgent ==
    /\ qpc = "router"
    /\ result = NoResult
    /\ qpc' = "structure_agent"
    /\ UNCHANGED <<query, agent_response, final_answer, script, collection, result>>

\* the structure agent's executor calls its tools and takes their strings
StructureAgentStep ==
    /\ qpc = "structure_agent"
    /\ StructureAgent

\* what an agent tool hands to the router's executor
AgentOutcome(tool, response, outcome) ==
    [tool |-> tool, arg |-> <<>>, fault |-> IF response.type = "raise" THEN 1 ELSE 0,
     type |-> outcome.type, returned |-> outcome]

\* structure_agent_executor.invoke ends, with an output or an exception
StructureAgentTool ==
    /\ qpc = "structure_agent"
    /\ result = NoResult
    /\ \E response \in AgentResponses :
         result' = AgentOutcome("structure_agent_tool", response,
                                structure_agent_tool(response))
    /\ qpc' = "router"
    /\ UNCHANGED <<query, agent_response, final_answer, script, collection>>

RouterCallsContentAgent ==
    /\ qpc = "router"
    /\ result = NoResult
    /\ qpc' = "content_agent"
    /\ UNCHANGED <<query, agent_response, final_answer, script, collection, result>>

\* the content agent's executor calls its tools and takes their strings
ContentAgentStep ==
    /\ qpc = "content_agent"
    /\ ContentAgent

\* content_agent_executor.invoke ends, with an output or an exception
ContentAgentTool ==
    /\ qpc = "content_agent"
    /\ result = NoResult
    /\ \E response \in AgentResponses :
         result' = AgentOutcome("content_agent_tool", response,
                                content_agent_tool(response))
    /\ qpc' = "router"
    /\ UNCHANGED <<query, agent_response, final_answer, script, collection>>

\* the router's executor takes the agent tool's string
RouterTakes ==
    /\ qpc = "router"
    /\ Return

\* router_agent_executor.invoke ends and query_data returns: lines 186-222
RouterReturns ==
    /\ qpc = "router"
    /\ result = NoResult
    /\ \E response \in RouterResponses :
         /\ agent_response' = response
         /\ final_answer' = query_data_invoke(response)
    /\ qpc' = "returned"
    /\ UNCHANGED <<query, script, collection, result>>

\* the answer is shown; nothing of the call remains
Answered ==
    /\ qpc = "returned"
    /\ qpc' = "idle"
    /\ query' = NoValue
    /\ agent_response' = NoValue
    /\ final_answer' = NoValue
    /\ UNCHANGED <<script, collection, result>>

NextQuery ==
    \/ Ask \/ RouterCallsStructureAgent \/ StructureAgentStep \/ StructureAgentTool
    \/ RouterCallsContentAgent \/ ContentAgentStep \/ ContentAgentTool
    \/ RouterTakes \/ RouterReturns \/ Answered

SpecQuery == InitQuery /\ [][NextQuery]_vars

-----------------------------------------------------------------------------
(* Properties *)

Records     == {collection[k] : k \in DOMAIN collection}
Sources     == {r.source : r \in Records}
Directories == {r.directory : r \in Records}

Range(seq) == {seq[k] : k \in DOMAIN seq}

\* the running tool is `tool`, no store call failed
Ran(tool) == result.tool = tool /\ result.fault = 0

\* the running tool is `tool` and it returned the string `text`
Reported(tool, text) ==
    result.tool = tool /\ result.type = "str" /\ result.text = text

Dir_s  == <<"s">>
Dir_su == <<"s", "/", ".", "u">>

RECURSIVE Level(_)
\* how many levels below the root a directory path lies (the empty path is
\* the root's)
Level(d) == IF d = <<>> THEN 0 ELSE 1 + Level(dirname(d))

\* directory p is the parent of directory c, both as stored
IsParentOf(p, c) ==
    /\ c # root
    /\ IF dirname(c) = <<>> THEN p = root ELSE p = dirname(c)

\* C1: every persisted record's depth is 0 for the root sentinel, 1 when the
\* directory's parent is the root, and otherwise 1 + the depth of the parent
\* path; two records whose directories are parent and child differ in depth
\* by exactly 1.
C1_DepthIsParentDepthPlusOne ==
    /\ \A r \in Records :
          LET parent == dirname(r.directory)
          IN  /\ r.directory = root => r.depth = 0
              /\ (r.directory # root /\ parent = <<>>) => r.depth = 1
              /\ (r.directory # root /\ parent # <<>>) => r.depth = 1 + Level(parent)
    /\ \A r1, r2 \in Records :
          IsParentOf(r1.directory, r2.directory) => r2.depth = r1.depth + 1

\* records at the root, in a top-level directory and in a directory nested
\* in it are persisted together
C1_Witness ==
    /\ root \in Directories
    /\ Dir_s \in Directories
    /\ Dir_su \in Directories

\* the directory values of the form P + "/" + one path segment
Children(P) ==
    { d \in Directories :
        /\ Len(d) > Len(P) + 1
        /\ Prefix(d, Len(P) + 1) = P \o <<sep>>
        /\ Count(Suffix(d, Len(P) + 1), sep) = 0 }

\* a subdirectory tool ran without a store failure on a non-root path that
\* some record has as its directory
SubdirsOfIndexedPath(tool) ==
    /\ Ran(tool)
    /\ result.arg # root
    /\ result.arg \in Directories

\* C2: for a non-root path P that some record has as its directory, the two
\* subdirectory tools report exactly the distinct directory values P/<one
\* segment>: no sibling that only shares the prefix, no deeper descendant.
C2_SubdirectoriesAreImmediateChildren ==
    /\ SubdirsOfIndexedPath("count_subdirectories_in_directory") =>
          /\ Reported("count_subdirectories_in_directory", CountSubdirsText)
          /\ result.value = Cardinality(Children(result.arg))
    /\ SubdirsOfIndexedPath("list_subdirectories_in_directory") =>
          /\ Reported("list_subdirectories_in_directory", ListSubdirsText)
          /\ Range(result.value) = Children(result.arg)
          /\ Len(result.value) = Cardinality(Children(result.arg))

\* s.startswith(prefix)
StartsWith(s, prefix) == Len(s) >= Len(prefix) /\ Prefix(s, Len(prefix)) = prefix

\* what a literal comparison with P + "/" selects at one level below P
LiteralPrefixMatches(P) ==
    { r.directory : r \in { x \in Records :
        /\ StartsWith(x.directory, P \o <<sep>>)
        /\ \E parent \in Records :
              parent.directory = P /\ x.depth = parent.depth + 1 } } \ {P}

\* C3: every regex-special character of directory_path is escaped, so the
\* two subdirectory tools give the result of a literal prefix comparison
\* with path + "/".
C3_PathIsMatchedLiterally ==
    /\ SubdirsOfIndexedPath("count_subdirectories_in_directory") =>
          /\ Reported("count_subdirectories_in_directory", CountSubdirsText)
          /\ result.value = Cardinality(LiteralPrefixMatches(result.arg))
    /\ SubdirsOfIndexedPath("list_subdirectories_in_directory") =>
          /\ Reported("list_subdirectories_in_directory", ListSubdirsText)
          /\ Range(result.value) = LiteralPrefixMatches(result.arg)

\* C4: the count count_subdirectories_in_directory(".") reports equals the
\* number of directories list_top_level_directories() lists and the count
\* count_top_level_directories() reports.
C4_RootSubdirectoryCountIsTopLevelCount ==
    ( /\ Reported("count_subdirectories_in_directory", CountSubdirsText)
      /\ result.arg = root )
    => /\ result.value = Len(list_top_level_directories(0).value)
       /\ result.value = count_top_level_directories(0).value

\* the root's subdirectories were counted while two top-level directories
\* are indexed
C4_Witness ==
    /\ Reported("count_subdirectories_in_directory", CountSubdirsText)
    /\ result.arg = root
    /\ result.value = 2

\* C5: list_files_in_directory(d) names only files whose stored directory is
\* exactly d: one name per record with directory d, none for a record of a
\* descendant directory.
C5_ListedFilesAreDirectlyInDirectory ==
    Reported("list_files_in_directory", ListFilesText) =>
        LET exact == {k \in DOMAIN collection : collection[k].directory = result.arg}
        IN  /\ Len(result.value) = Cardinality(exact)
            /\ \A i \in DOMAIN result.value :
                  \E k \in exact : collection[k].file_name = result.value[i]

\* the files of "s" were listed while a file of "s/.u" is indexed
C5_Witness ==
    /\ Reported("list_files_in_directory", ListFilesText)
    /\ result.arg = Dir_s
    /\ result.value # <<>>
    /\ Dir_su \in Directories

\* the indexed text files are exactly a.p, s/b.p and s/.u/c.p
ScenarioA == pc = "done" /\ Sources = {Paths[1], Paths[2], Paths[3]}

\* C6: with exactly a.p, s/b.p and s/.u/c.p indexed (a file at the root, one in
\* a top-level directory, one in a directory nested in it),
\* count_top_level_directories reports 1,
\* list_subdirectories_in_directory("s") lists exactly "s/.u", and
\* count_files_in_directory(".") reports 1.
C6_ScenarioA ==
    ScenarioA =>
        /\ Ran("count_top_level_directories") =>
              Reported("count_top_level_directories", CountTopLevelText)
              /\ result.value = 1
        /\ (Ran("list_subdirectories_in_directory") /\ result.arg = Dir_s) =>
              Reported("list_subdirectories_in_directory", ListSubdirsText)
              /\ result.value = <<Dir_su>>
        /\ (Ran("count_files_in_directory") /\ result.arg = root) =>
              Reported("count_files_in_directory", CountFilesInDirText)
              /\ result.value = 1

\* C7: count_files_in_directory(d) reports the number of distinct original
\* files (source paths) whose directory is d, however many chunks each has.
C7_CountsFilesNotChunks ==
    Ran("count_files_in_directory") =>
        /\ Reported("count_files_in_directory", CountFilesInDirText)
        /\ result.value =
               Cardinality({r.source : r \in {x \in Records : x.directory = result.arg}})

RECURSIVE SumCounts(_)
SumCounts(lines) ==
    IF lines = <<>> THEN 0 ELSE Head(lines).count + SumCounts(Tail(lines))

\* no two indexed files share a file name
NamesUnique ==
    \A s1, s2 \in Sources : basename(s1) = basename(s2) => s1 = s2

\* C8: the per-extension counts sum to the number of original indexed files,
\* each counted once however many chunks it has; when all file names are
\* unique the sum equals the count count_total_files reports.
C8_ExtensionCountsSumToFiles ==
    Reported("count_files_by_extension", ExtensionCountsText) =>
        /\ SumCounts(result.value) = Cardinality(Sources)
        /\ NamesUnique => SumCounts(result.value) = count_total_files(0).value

C10_ToolsAlwaysReturnAString ==
    result # NoResult => result.type = "str"

\* the first lookup of count_subdirectories_in_directory failed and the tool
\* returned its error string
C10_Witness ==
    /\ Reported("count_subdirectories_in_directory", CountSubdirsErrorText)
    /\ result.fault = 1
    /\ result.arg = Dir_s

-----------------------------------------------------------------------------
(* C11 *)

SubdirectoryTools ==
    {"count_subdirectories_in_directory", "list_subdirectories_in_directory"}

\* some record lies below directory P: its directory starts with P + "/"
HasRecordsBelow(P) == \E d \in Directories : StartsWith(d, P \o <<"/">>)

\* C11: for a directory_path other than the root that no record carries as its
\* directory, both subdirectory tools return the "not found" string after
\* the parent lookup alone: the second store call is never made (the tool
\* answers the same when that call would fail, fault = 2) and no count or
\* list is derived from the records below the path.
C11_UnindexedParentIsNotFound ==
    \A tool \in SubdirectoryTools :
        (/\ result.tool = tool
         /\ result.fault \in {0, 2}
         /\ result.arg # root
         /\ result.arg \notin Directories)
        => /\ Reported(tool, NotFoundText)
           /\ result.value = <<>>

\* "s" holds no file of its own but "s/.u" does: each tool was asked about
\* "s", once with a second store call that would have failed
C11_Witness ==
    /\ Dir_s \notin Directories
    /\ HasRecordsBelow(Dir_s)
    /\ result.tool = "list_subdirectories_in_directory"
    /\ result.arg = Dir_s
    /\ result.fault = 2
    /\ result.text = NotFoundText

-----------------------------------------------------------------------------
(* C12 *)

\* query_data has returned what it made of the text the router wrote
ReturnedRouterText ==
    /\ qpc = "returned"
    /\ agent_response.type = "dict"
    /\ agent_response.has_output
    /\ agent_response.output.type = "str"

\* what stands inside a fence: the stripped text without its first eight
\* characters and, when it ends with three grave accents, without them and
\* the whitespace around the rest
InsideFence(text) ==
    LET body == Suffix(strip(text), 8)
    IN  IF endswith(body, FenceClose) THEN strip(Prefix(body, Len(body) - 3)) ELSE body

\* C12 as stated: for every non-empty question, the text query_data returns
\* is the router's output text character for character, whatever that text is.
C12_AnswerIsRouterOutput ==
    ReturnedRouterText => final_answer = agent_response.output

\* C12, amended: the returned text is the router's output text character for
\* character unless that text, stripped of surrounding whitespace, starts
\* with the fence opening; then it is what stands inside the fence, or, when
\* that is a JSON object with an 'output' member, the value of that member.
C12_AnswerIsRouterOutputOrFenceContent ==
    ReturnedRouterText =>
        LET text   == agent_response.output.chars
            inside == InsideFence(text)
            parsed == json_loads(inside)
        IN  IF ~startswith(strip(text), FenceOpen)
            THEN final_answer = Chars(text)
            ELSE IF parsed.ok /\ HasOutput(parsed.value)
            THEN final_answer = OutputOf(parsed.value)
            ELSE final_answer = Chars(inside)

\* the router wrote a padded fence and the answer is the two characters in it
C12_Witness ==
    /\ ReturnedRouterText
    /\ query = Chars(<<"h", "i">>)
    /\ agent_response.output = Chars(PaddedFencedOutput)
    /\ final_answer = Chars(<<"a", "b">>)

-----------------------------------------------------------------------------
(* C13 *)

\* C13: while an empty question is being served, query_data is at its
\* return with the fixed prompt-for-input string: it is never at the router,
\* at a responder or at a tool, no response was obtained and no tool ran.
C13_EmptyQuestionIsTurnedAway ==
    (query # NoValue /\ query.chars = <<>>)
    => /\ qpc = "returned"
       /\ final_answer = Str(PromptText, <<>>)
       /\ agent_response = NoValue
       /\ result = NoResult

\* the empty question was asked of an indexed store
C13_Witness ==
    /\ query = Chars(<<>>)
    /\ collection # <<>>
    /\ final_answer.text = PromptText

-----------------------------------------------------------------------------
(* C14 *)

\* C14: no failure during a query ends the process; whatever fails (the
\* router call, a responder call, a tool's store call, the parsing of the
\* router's output) every tool and agent tool hands a string to its caller
\* and query_data returns a string.
C14_QueryAlwaysReturnsAString ==
    /\ result # NoResult => result.type = "str"
    /\ qpc = "returned" => final_answer.type = "str"

-----------------------------------------------------------------------------
(* C15 *)

RECURSIVE Repeat(_, _)
\* n copies of a sequence, one after the other
Repeat(seq, n) == IF n = 0 THEN <<>> ELSE seq \o Repeat(seq, n - 1)

\* the records one run on the repository persists
OneRun == RunRecords(get_all_files(<<>>).files)

-----------------------------------------------------------------------------
(* C16 *)

\* the paths of the fetched file map whose content is text with at least
\* one character that is not whitespace
TextPaths ==
    {all_files[k].path : k \in {j \in DOMAIN all_files :
                                    /\ all_files[j].content.type = "str"
                                    /\ all_files[j].content.nonspace > 0}}

\* C16: once a run has persisted, the source paths with at least one record
\* are exactly the fetched paths whose content is text with a non-whitespace
\* character; null, bytes, empty and whitespace-only entries have no record
\* and the entries after them are processed all the same.
C16_RecordsExactlyForTextFiles ==
    pc = "persisted" => Sources = TextPaths

\* a null entry and a whitespace-only entry come before the one text file
C16_Witness ==
    /\ pc = "persisted"
    /\ Len(all_files) = 3
    /\ all_files[1].content = None
    /\ all_files[2].content = Whitespace
    /\ Sources = {all_files[3].path}

-----------------------------------------------------------------------------
(* C17 *)

\* C17: a run that fails at any stage (fetch, split, embedding-model load,
\* persist) leaves the store without any record of that run. The store is
\* empty before the one run of this specification.
C17_FailedRunLeavesNoRecord ==
    pc = "exit" => collection = <<>>

-----------------------------------------------------------------------------
(* C18 *)

\* the directories a path lies in, the root included
Ancestors(path) ==
    {d \in RemoteDirs : d = <<>> \/ StartsWith(path, d \o <<"/">>)}

\* every listing on the way to the path was answered with a success
Listed(path) == \A d \in Ancestors(path) : remote[d].status_code = 200

Keys(files) == {files[k].path : k \in DOMAIN files}
ValueOf(files, path) == files[CHOOSE k \in DOMAIN files : files[k].path = path].content

\* C18: get_all_files never raises because of a response that is not a
\* success: the files it returns are exactly those whose directories were
\* all listed (a failed listing, of the root or deeper, empties its
\* subtree only), a file whose own fetch failed maps to null, and a
\* file fetched as text maps to that text.
C18_FailedResponsesAreSkipped ==
    LET fetched == get_all_files(<<>>)
    IN  /\ fetched.type = "dict"
        /\ (pc = "loop" => all_files = fetched.files)
        /\ Keys(fetched.files) = {f \in RemoteFiles : Listed(f)}
        /\ \A f \in Keys(fetched.files) :
              /\ remote[f].status_code # 200 => ValueOf(fetched.files, f) = None
              /\ (/\ remote[f].status_code = 200
                  /\ remote[f].encoding = "base64"
                  /\ remote[f].utf8)
                 => ValueOf(fetched.files, f) = remote[f].text

\* the listing of s/.u failed and so did the fetch of a.p, while s/b.p was
\* fetched: the script holds a.p as null and s/b.p with its text
C18_Witness ==
    /\ pc = "loop"
    /\ remote[<<"s", "/", ".", "u">>].status_code # 200
    /\ remote[Paths[1]].status_code # 200
    /\ all_files = << [path |-> Paths[1], content |-> None],
                      [path |-> Paths[2], content |-> ShortText] >>

-----------------------------------------------------------------------------
(* C19 *)

\* the outcomes a structure tool can have for a call on the records the
\* store holds now
StructureOutcomes(tool, arg, fault) ==
    CASE tool = "count_total_files" -> {count_total_files(fault)}
      [] tool = "count_total_directories" -> {count_total_directories(fault)}
      [] tool = "count_top_level_directories" -> {count_top_level_directories(fault)}
      [] tool = "count_files_in_directory" -> {count_files_in_directory(arg, fault)}
      [] tool = "count_subdirectories_in_directory" ->
             {count_subdirectories_in_directory(arg, fault)}
      [] tool = "list_all_directories" -> {list_all_directories(fault)}
      [] tool = "list_top_level_directories" -> {list_top_level_directories(fault)}
      [] tool = "list_files_in_directory" -> {list_files_in_directory(arg, fault)}
      [] tool = "list_subdirectories_in_directory" ->
             {list_subdirectories_in_directory(arg, fault)}
      [] tool = "count_files_by_extension" ->
             {count_files_by_extension(order, fault) :
                  order \in SortByCountDesc(GroupByExtension)}

StructureTools ==
    {"count_total_files", "count_total_directories", "count_top_level_directories",
     "count_files_in_directory", "count_subdirectories_in_directory",
     "list_all_directories", "list_top_level_directories", "list_files_in_directory",
     "list_subdirectories_in_directory", "count_files_by_extension"}

ContentTools == {"content_search", "summarize_repo_content"}

\* between two questions nothing of the last one is left
NothingRetained ==
    qpc = "idle" => /\ query = NoValue
                    /\ agent_response = NoValue
                    /\ final_answer = NoValue
                    /\ result = NoResult

\* a structure tool's result is one the call has on the stored records,
\* whatever was asked before; a content tool formats what the store returned
ResultFollowsFromCallAndRecords ==
    /\ result.tool \in StructureTools =>
           \E outcome \in StructureOutcomes(result.tool, result.arg, result.fault) :
               result = Outcome(result.tool, result.arg, result.fault, outcome)
    /\ (result.tool \in ContentTools /\ result.fault = 0) =>
           result.value.blocks = Blocks(result.value.searches[1].docs)

\* C19: no step of the query application (the structure tools, the content
\* tools, the agent tools, query_data) changes the persisted records or the
\* indexing script's state; nothing of a question is kept once it is
\* answered; and a tool's result follows from the call and the stored
\* records alone.
C19_QueriesChangeNothing ==
    /\ [][UNCHANGED <<collection, script>>]_vars
    /\ []NothingRetained
    /\ []ResultFollowsFromCallAndRecords

\* a structure tool and a content tool have answered on the indexed store
C19_Witness ==
    /\ collection # <<>>
    /\ qpc = "content_agent"
    /\ result.tool = "summarize_repo_content"
    /\ result.fault = 0
    /\ Len(result.value.blocks) = Len(collection)

-----------------------------------------------------------------------------
(* C20 *)

\* the one search the running content tool made
TheSearch == result.value.searches[1]

\* C20: content_search(q) makes one similarity search, with q as it was
\* given and k = 5, and returns a block for each chunk the store returned,
\* at most 5, in the store's order; summarize_repo_content makes one search
\* with the fixed broad query and k = 20, whatever the question is; each
\* returns its own not-found string when the store returns no chunk.
C20_ContentToolsSearchOnce ==
    /\ Ran("content_search") =>
          /\ Len(result.value.searches) = 1
          /\ TheSearch.query = result.arg
          /\ TheSearch.k = 5
          /\ Len(result.value.blocks) <= 5
          /\ result.value.blocks = Blocks(TheSearch.docs)
          /\ result.text = IF TheSearch.docs = <<>> THEN NoChunksText
                           ELSE FormattedDocsText
    /\ Ran("summarize_repo_content") =>
          /\ Len(result.value.searches) = 1
          /\ TheSearch.query = BroadQuery
          /\ TheSearch.k = 20
          /\ result.value.blocks = Blocks(TheSearch.docs)
          /\ result.text = IF TheSearch.docs = <<>> THEN NoSummaryText
                           ELSE FormattedDocsText

\* the store holds six chunks and content_search returned five blocks for a
\* query that is not the question typed in
C20_Witness ==
    /\ Len(collection) = 6
    /\ Ran("content_search")
    /\ result.arg = "what is in a.p"
    /\ Len(result.value.blocks) = 5
    /\ query = Chars(<<"h", "i">>)

-----------------------------------------------------------------------------
(* C21 *)

\* the metadata of a chunk record, its position among the chunks left out
Metadata(r) ==
    [ source         |-> r.source,
      file_name      |-> r.file_name,
      file_extension |-> r.file_extension,
      directory      |-> r.directory,
      depth          |-> r.depth ]

\* the chunks split from the files and the records persisted from them
ChunkRecords == Records \cup Range(documents)

\* C21: all chunk records that come from the same original file carry the
\* same metadata: two records with the same source agree on file_name,
\* file_extension, directory and depth, and these are the values derived from
\* the source path before splitting (the last path segment, its extension,
\* the path of the containing directory or "." at the root, and the number of
\* levels that directory lies below the root).
C21_ChunksShareTheFileMetadata ==
    /\ \A r1, r2 \in ChunkRecords :
          r1.source = r2.source => Metadata(r1) = Metadata(r2)
    /\ \A r \in ChunkRecords :
          LET dir == dirname(r.source)
          IN  /\ r.file_name = basename(r.source)
              /\ r.file_extension = splitext(basename(r.source))[2]
              /\ r.directory = (IF dir = <<>> THEN root ELSE dir)
              /\ r.depth = Level(dir)

\* a run persisted two chunks of a file that lies two levels below the root
C21_Witness ==
    /\ pc = "done"
    /\ \E r1, r2 \in Records :
          /\ r1.source = r2.source
          /\ r1.chunk # r2.chunk
          /\ r1.depth = 2
          /\ r1.file_extension # <<>>

-----------------------------------------------------------------------------
(* C22 *)

RECURSIVE Above(_)
\* the directories a directory is nested in, the root left out
Above(d) ==
    IF dirname(d) = <<>> THEN {} ELSE {dirname(d)} \cup Above(dirname(d))

\* the directories that hold directories with records but no record of
\* their own
OnlySubdirectories ==
    {D \in UNION {Above(d) : d \in Directories} : D \notin Directories}

\* the directory argument that names the parent of D
ParentOf(D) == IF dirname(D) = <<>> THEN root ELSE dirname(D)

\* the directories with records that lie directly under the root
TopLevel == {d \in Directories \ {root} : dirname(d) = <<>>}

\* only s/.u/c.p is indexed
SingleNestedFile == pc = "done" /\ Sources = {Paths[3]}

C22_NestedWitness ==
    /\ Dir_su \in OnlySubdirectories
    /\ Dir_s \in Directories
    /\ Reported("count_subdirectories_in_directory", CountSubdirsText)
    /\ result.arg = Dir_s
    /\ result.value = 0

-----------------------------------------------------------------------------
(* C23 *)

\* the names of a list are distinct and in ascending order
SortedDistinct(names) ==
    /\ Cardinality(Range(names)) = Len(names)
    /\ \A i, j \in DOMAIN names : i < j => StrLess(names[i], names[j])

\* C23: for any indexed data set and any directory_path (the root, a
\* directory with records, a path with none), the two subdirectory tools
\* agree when the store answers both: either both return the not-found
\* string, or the count the one reports is the number of directories the
\* other lists, and the listed directories are distinct and in ascending
\* order.
C23_CountAndListAgree ==
    /\ Ran("count_subdirectories_in_directory") =>
          LET listed == list_subdirectories_in_directory(result.arg, 0)
          IN  \/ /\ Reported("count_subdirectories_in_directory", NotFoundText)
                 /\ listed.text = NotFoundText
              \/ /\ Reported("count_subdirectories_in_directory", CountSubdirsText)
                 /\ listed.text = ListSubdirsText
                 /\ result.value = Len(listed.value)
                 /\ SortedDistinct(listed.value)
    /\ Ran("list_subdirectories_in_directory") =>
          LET counted == count_subdirectories_in_directory(result.arg, 0)
          IN  \/ /\ Reported("list_subdirectories_in_directory", NotFoundText)
                 /\ counted.text = NotFoundText
              \/ /\ Reported("list_subdirectories_in_directory", ListSubdirsText)
                 /\ counted.text = CountSubdirsText
                 /\ counted.value = Len(result.value)
                 /\ SortedDistinct(result.value)

\* the pattern the subdirectory tools build for the path is one the store
\* accepts
PatternCompiles == result.arg = root \/ RegexValid(regex_pattern(result.arg))

\* the two tools agree for every path whose pattern the store accepts
AgreeWhenPatternCompiles ==
    (result.tool \in SubdirectoryTools /\ PatternCompiles) => C23_CountAndListAgree

\* the directory "+" has a record and its subdirectories were asked for: the
\* store rejects the pattern '^+/' and the tool returns its error string
RejectedPattern ==
    /\ Ran("count_subdirectories_in_directory")
    /\ result.arg = <<"+">>
    /\ result.arg \in Directories
    /\ result.text = CountSubdirsErrorText

====
